---- MODULE Spec2Model ----
(***************************************************************************)
(* The lexer of koreore: src/main.rs (chars_iter, consume, skip, scan,     *)
(* tokenize).  A source text is expanded into position-tagged characters,  *)
(* and the driver loop calls scan on one shared Peekable until scan        *)
(* returns None or the process panics.                                     *)
(*                                                                         *)
(* Characters are one-character strings.  A u32 is kept as two 16-bit      *)
(* limbs [hi, lo] (value = hi * 65536 + lo), so that the 32-bit overflow   *)
(* checks of the integer parsers are exact.                                *)
(***************************************************************************)
EXTENDS Integers, Sequences, FiniteSets, TLC

VARIABLES
  source,   \* the text of the file, a sequence of characters
  chars,    \* the position-tagged characters chars_iter makes of it
  cur,      \* the Peekable: the characters not yet consumed
  tokens,   \* the tokens the driver loop has received, in order
  spans,    \* for each token, the positions in chars its call consumed
  pc,       \* the driver: "loop", "done" (scan gave None) or "panic"
  failure,  \* where and why the process panicked
  calls,    \* how many times the driver loop has called scan
  iter,     \* the field iter of a Cursor (cursor.rs): its unconsumed characters
  last      \* the last operation applied to the Cursor, with its outcome

vars == <<source, chars, cur, tokens, spans, pc, failure, calls, iter, last>>

---------------------------------------------------------------------------
(* Bounds of the model *)

\* a generated source text is the concatenation of at most MaxFrags fragments
MaxFrags == 3

---------------------------------------------------------------------------
(* Characters *)

LF == "\n"
CR == "\r"
TAB == "\t"
SP == " "
QUOTE == "\""

\* char::is_ascii_alphabetic
AsciiAlphabetic ==
  {"a","b","c","d","e","f","g","h","i","j","k","l","m",
   "n","o","p","q","r","s","t","u","v","w","x","y","z",
   "A","B","C","D","E","F","G","H","I","J","K","L","M",
   "N","O","P","Q","R","S","T","U","V","W","X","Y","Z"}

\* char::is_ascii_digit, each digit with its value
DigitValue ==
  ("0" :> 0) @@ ("1" :> 1) @@ ("2" :> 2) @@ ("3" :> 3) @@ ("4" :> 4) @@
  ("5" :> 5) @@ ("6" :> 6) @@ ("7" :> 7) @@ ("8" :> 8) @@ ("9" :> 9)

AsciiDigit == DOMAIN DigitValue

\* the arm '\t' | '\n' | '\r' | ' ' of scan
WhitespaceChars == {TAB, LF, CR, SP}

\* the one-character arms of scan that return their token kind directly
Punct ==
  (";" :> "Semi") @@ ("," :> "Comma") @@ ("." :> "Dot") @@
  ("(" :> "OpenParen") @@ (")" :> "CloseParen") @@
  ("{" :> "OpenBrace") @@ ("}" :> "CloseBrace") @@
  ("[" :> "OpenBracket") @@ ("]" :> "CloseBracket") @@
  ("@" :> "At") @@ ("#" :> "Pound") @@ ("~" :> "Tilde") @@
  ("?" :> "Question") @@ (":" :> "Colon") @@ ("$" :> "Dollar") @@
  ("=" :> "Eq") @@ ("!" :> "Bang") @@ ("<" :> "Lt") @@ (">" :> "Gt") @@
  ("-" :> "Minus") @@ ("&" :> "And") @@ ("|" :> "Or") @@ ("+" :> "Plus") @@
  ("*" :> "Star") @@ ("^" :> "Caret") @@ ("%" :> "Percent")

\* characters that no arm of scan recognizes as the lead of a token
OtherChars == {"_", "é", "'", "\\"}

\* the characters a source text is made of
CharSet ==
  AsciiAlphabetic \cup AsciiDigit \cup WhitespaceChars \cup DOMAIN Punct
    \cup {"/", QUOTE} \cup OtherChars

---------------------------------------------------------------------------
(* Source texts *)

RECURSIVE Rep(_, _)
Rep(s, n) == IF n = 0 THEN <<>> ELSE s \o Rep(s, n - 1)

Fragments ==
  { <<SP>>, <<CR>>, <<LF>>, <<"/">>, <<";">>, <<"@">>, <<"?">>,
    <<"_">>, <<QUOTE>>, <<"a">>, <<"2">>,
    <<"t","y","p","e">>,
    <<"4","2","9","4","9","6","7","2","9","5">> }

Corpus ==
  { <<QUOTE,"_","@","_","@",QUOTE>>,
    <<QUOTE,"@",QUOTE,"_",QUOTE,";">>,
    <<QUOTE>> \o Rep(<<"@">>, 32) \o <<QUOTE>>,
    <<QUOTE>> \o Rep(<<"_">>, 32) \o <<"@",QUOTE>>,
    <<QUOTE,"@">> \o Rep(<<"_">>, 32) \o <<QUOTE>>,
    <<"a","b",LF,"c","d">>,
    <<"/","/",SP,"h","e","l","l","o",LF>>,
    <<"1","2","3","4">>,
    <<"9","9","9","9","9","9","9","9","9","9">>,
    <<"0","0","0","0","0","0","0","0","0","0","7">>,
    <<"4","2","9","4","9","6","7","2","9","6">>,
    <<"e","n","u","m">>, <<"e","n","u","m","_">>,
    <<"l","o","g","i","c">>, <<"l","o","g","i","c","s">>,
    <<"T","y","p","e">>, <<"t","y","p","e","s">>,
    <<"x","/","y",";">>,
    <<"7",";","4","2","9","4","9","6","7","2","9","6">>,
    <<"t","y","p","e",SP,"t","y","p","e","2">>,
    <<SP,TAB,CR,LF,LF,SP,CR,LF>>,
    <<TAB>>, <<TAB,LF,TAB>>, <<"a",TAB,"2">>,
    <<"é">>, <<"a","é","a">>, <<"/","/","é",LF,"'","\\">> }

RECURSIVE Concat(_)
Concat(fs) == IF fs = <<>> THEN <<>> ELSE Head(fs) \o Concat(Tail(fs))

Sources ==
  Corpus \cup
  UNION { { Concat(fs) : fs \in [1..n -> Fragments] } : n \in 0..MaxFrags }

---------------------------------------------------------------------------
(* chars_iter: line expansion *)

\* index of the first LF of s at or after position i, 0 when there is none
RECURSIVE FindLF(_, _)
FindLF(s, i) ==
  IF i > Len(s) THEN 0
  ELSE IF s[i] = LF THEN i
  ELSE FindLF(s, i + 1)

\* BufRead::lines: split at LF; a line that ended with LF loses it and then
\* one CR before it; text after the last LF is a line only when non-empty
RECURSIVE lines(_)
lines(s) ==
  IF s = <<>> THEN <<>>
  ELSE LET n == FindLF(s, 1) IN
    IF n = 0 THEN <<s>>
    ELSE LET buf == SubSeq(s, 1, n - 1)
             line == IF buf # <<>> /\ buf[Len(buf)] = CR
                       THEN SubSeq(buf, 1, Len(buf) - 1)
                       ELSE buf
         IN <<line>> \o lines(SubSeq(s, n + 1, Len(s)))

\* no terminator pushed at the end of the line
ExpandLine_NoTerminator(i, string) ==
  [j \in 1..Len(string) |->
     [line_num |-> i, row_num |-> j, c |-> string[j]]]

\* columns enumerated from 0
ExpandLine_ZeroBased(i, string) ==
  LET line_vec == Append(string, LF) IN
    [j \in 1..Len(line_vec) |->
       [line_num |-> i, row_num |-> j - 1, c |-> line_vec[j]]]

\* every character tagged with line 1
ExpandLine_LineOne(i, string) ==
  LET line_vec == Append(string, LF) IN
    [j \in 1..Len(line_vec) |->
       [line_num |-> 1, row_num |-> j, c |-> line_vec[j]]]

\* the closure of flat_map: one line, with '\n' pushed, enumerated from 1
ExpandLine(i, string) ==
  LET line_vec == Append(string, LF) IN
    [j \in 1..Len(line_vec) |->
       [line_num |-> i, row_num |-> j, c |-> line_vec[j]]]

RECURSIVE FlatMap(_, _)
FlatMap(ls, i) ==
  IF i > Len(ls) THEN <<>>
  ELSE ExpandLine(i, ls[i]) \o FlatMap(ls, i + 1)

chars_iter(s) == FlatMap(lines(s), 1)

---------------------------------------------------------------------------
(* u32 and the integer parsers of the standard library *)

Limb == 65536

U32(n) == [hi |-> n \div Limb, lo |-> n % Limb]

\* wrapping instead of checked arithmetic
CheckedMulAdd_Wrapping(v, radix, d) ==
  LET lo == v.lo * radix + d
      hi == v.hi * radix + (lo \div Limb)
  IN [ok |-> TRUE, value |-> [hi |-> hi % Limb, lo |-> lo % Limb]]

\* checked_mul(radix) followed by checked_add(d) on a u32
CheckedMulAdd(v, radix, d) ==
  LET lo == v.lo * radix + d
      hi == v.hi * radix + (lo \div Limb)
  IN IF hi >= Limb
       THEN [ok |-> FALSE, value |-> v]
       ELSE [ok |-> TRUE, value |-> [hi |-> hi, lo |-> lo % Limb]]

RECURSIVE ParseFrom(_, _, _, _)
ParseFrom(src, radix, i, acc) ==
  IF i > Len(src) THEN [ok |-> TRUE, err |-> "none", value |-> acc]
  ELSE LET r == CheckedMulAdd(acc, radix, DigitValue[src[i]]) IN
    IF r.ok THEN ParseFrom(src, radix, i + 1, r.value)
    ELSE [ok |-> FALSE, err |-> "PosOverflow", value |-> acc]

\* u32::from_str_radix on a string of digits below radix (str::parse::<u32>
\* is from_str_radix(src, 10))
from_str_radix(src, radix) ==
  IF src = <<>> THEN [ok |-> FALSE, err |-> "Empty", value |-> U32(0)]
  ELSE ParseFrom(src, radix, 1, U32(0))

---------------------------------------------------------------------------
(* consume and skip on the Peekable *)

\* Peekable::next_if(|char| char.c == c)
next_if_eq(cu, c) ==
  IF cu # <<>> /\ Head(cu).c = c
    THEN [some |-> TRUE, cur |-> Tail(cu)]
    ELSE [some |-> FALSE, cur |-> cu]

\* consume: Some(next_if(..)?.c == c); the ? returns None when next_if
\* yields nothing
consume(cu, c) ==
  LET n == next_if_eq(cu, c) IN
    IF n.some
      THEN [ret |-> IF Head(cu).c = c THEN "SomeTrue" ELSE "SomeFalse",
            cur |-> n.cur]
      ELSE [ret |-> "None", cur |-> n.cur]

\* skip: peek, call the predicate on the peeked character, advance while it
\* says true.  A predicate is a function from characters to "true", "false"
\* or "panic"; taken lists the characters on which it said true.
RECURSIVE skip(_, _)
skip(cu, predicate) ==
  IF cu = <<>> THEN [cur |-> cu, taken |-> <<>>, panicked |-> FALSE]
  ELSE LET verdict == predicate[Head(cu).c] IN
    IF verdict = "panic" THEN [cur |-> cu, taken |-> <<>>, panicked |-> TRUE]
    ELSE IF verdict = "true"
      THEN LET r == skip(Tail(cu), predicate) IN
             [r EXCEPT !.taken = <<Head(cu).c>> \o @]
      ELSE [cur |-> cu, taken |-> <<>>, panicked |-> FALSE]

Pred(S) == [c \in CharSet |-> IF c \in S THEN "true" ELSE "false"]

\* a whitespace run that stops at the line terminator
WhitespacePred_NoLF == Pred({TAB, CR, SP})

\* |c| matches!(c, '\t' | '\n' | '\r' | ' ')
WhitespacePred == Pred(WhitespaceChars)

\* a comment that never stops
CommentPred_All == Pred(CharSet)

\* a comment that stops at CR instead of LF
CommentPred_NotCR == Pred(CharSet \ {CR})

\* |c| c != '\n'
CommentPred == Pred(CharSet \ {LF})

\* a word that stops at a digit
WordPred_NoDigits == Pred(AsciiAlphabetic \cup {"_"})

\* |c| c.is_ascii_alphanumeric() || c == '_'   (pushes c onto word)
WordPred == Pred(AsciiAlphabetic \cup AsciiDigit \cup {"_"})

\* |c| c.is_ascii_digit()   (pushes c onto digits)
DigitPred == Pred(AsciiDigit)

\* a '?' that ends the run like any other character
LiteralPred_QuestionStops ==
  [c \in CharSet |->
     CASE c = "_" -> "true"
       [] c = "@" -> "true"
       [] c = QUOTE -> "true"
       [] OTHER -> "false"]

\* the verdict of the bit-literal closure
LiteralPred ==
  [c \in CharSet |->
     CASE c = "_" -> "true"
       [] c = "@" -> "true"
       [] c = "?" -> "panic"
       [] c = QUOTE -> "true"
       [] OTHER -> "false"]

\* the closing quote counted as a bit position
LiteralPush_QuoteCounts(acc, c) ==
  CASE c = "_" -> [bits |-> Append(acc.bits, "0"), bitwidth |-> acc.bitwidth + 1]
    [] c = "@" -> [bits |-> Append(acc.bits, "1"), bitwidth |-> acc.bitwidth + 1]
    [] c = QUOTE -> [bits |-> acc.bits, bitwidth |-> acc.bitwidth + 1]
    [] OTHER -> acc

\* the side effect of the bit-literal closure on (bits, bitwidth)
LiteralPush(acc, c) ==
  CASE c = "_" -> [bits |-> Append(acc.bits, "0"), bitwidth |-> acc.bitwidth + 1]
    [] c = "@" -> [bits |-> Append(acc.bits, "1"), bitwidth |-> acc.bitwidth + 1]
    [] OTHER -> acc

RECURSIVE LiteralAcc(_, _, _)
LiteralAcc(taken, i, acc) ==
  IF i > Len(taken) THEN acc
  ELSE LiteralAcc(taken, i + 1, LiteralPush(acc, taken[i]))

---------------------------------------------------------------------------
(* detect_reserved *)

\* keyword lookup by prefix instead of by the whole word
detect_reserved_Prefix(word) ==
  CASE Len(word) >= 4 /\ SubSeq(word, 1, 4) = <<"t","y","p","e">> -> "Type"
    [] Len(word) >= 4 /\ SubSeq(word, 1, 4) = <<"e","n","u","m">> -> "Enum"
    [] Len(word) >= 5 /\ SubSeq(word, 1, 5) = <<"l","o","g","i","c">> -> "Logic"
    [] OTHER -> "None"

detect_reserved(word) ==
  CASE word = <<"t","y","p","e">> -> "Type"
    [] word = <<"e","n","u","m">> -> "Enum"
    [] word = <<"l","o","g","i","c">> -> "Logic"
    [] OTHER -> "None"

---------------------------------------------------------------------------
(* scan *)

NoFailure == [site |-> "none", err |-> "none"]

Some(kind, cu) == [ret |-> "Some", token_kind |-> kind, cur |-> cu, failure |-> NoFailure]
None(cu) == [ret |-> "None", token_kind |-> [tag |-> "none"], cur |-> cu, failure |-> NoFailure]
Panic(site, err, cu) ==
  [ret |-> "panic", token_kind |-> [tag |-> "none"], cur |-> cu,
   failure |-> [site |-> site, err |-> err]]

\* '\t' | '\n' | '\r' | ' ' => skip the rest of the run
WhitespaceArm(rest) ==
  Some([tag |-> "Whitespace"], skip(rest, WhitespacePred).cur)

\* the one-character arms
PunctArm(c, rest) == Some([tag |-> Punct[c]], rest)

\* '/' => if consume(cur, '/')? { skip to the LF; Comment } else { Slash }
SlashArm(rest) ==
  LET r == consume(rest, "/") IN
    CASE r.ret = "None" -> None(r.cur)
      [] r.ret = "SomeTrue" -> Some([tag |-> "Comment"], skip(r.cur, CommentPred).cur)
      [] r.ret = "SomeFalse" -> Some([tag |-> "Slash"], r.cur)

\* Ident or Reserved
WordArm(c, rest) ==
  LET r == skip(rest, WordPred)
      word == <<c>> \o r.taken
      reserved_kind == detect_reserved(word)
  IN IF reserved_kind # "None"
       THEN Some([tag |-> "Reserved", kind |-> reserved_kind], r.cur)
       ELSE Some([tag |-> "Ident", word |-> word], r.cur)

\* Number: digits.parse().unwrap()
NumberArm(c, rest) ==
  LET r == skip(rest, DigitPred)
      digits == <<c>> \o r.taken
      parsed == from_str_radix(digits, 10)
  IN IF parsed.ok
       THEN Some([tag |-> "Number", value |-> parsed.value], r.cur)
       ELSE Panic("Number", parsed.err, r.cur)

\* Literal: u32::from_str_radix(&bits, 2).unwrap()
LiteralArm(rest) ==
  LET r == skip(rest, LiteralPred)
      acc == LiteralAcc(r.taken, 1, [bits |-> <<>>, bitwidth |-> 0])
      parsed == from_str_radix(acc.bits, 2)
  IN IF r.panicked THEN Panic("LiteralBit", "unimplemented", r.cur)
     ELSE IF parsed.ok
       THEN Some([tag |-> "Literal", bitwidth |-> acc.bitwidth,
                  value |-> parsed.value], r.cur)
       ELSE Panic("Literal", parsed.err, r.cur)

\* an unrecognized lead turned into an empty identifier
OtherArm_AsIdent(rest) == Some([tag |-> "Ident", word |-> <<>>], rest)

\* the last else of the catch-all arm
OtherArm(rest) == Panic("Lead", "unimplemented", rest)

\* columns counted from 0
Token_ZeroBased(char, kind) ==
  [line_num |-> char.line_num, row_num |-> char.row_num - 1, token_kind |-> kind]

\* Some(Token { token_kind, line_num: char.line_num, row_num: char.row_num })
Token(char, kind) ==
  [line_num |-> char.line_num, row_num |-> char.row_num, token_kind |-> kind]

\* the lead character peeked instead of pulled
scan_Peek(cu) ==
  IF cu = <<>> THEN None(cu)
  ELSE LET char == Head(cu)
           rest == cu
       IN CASE char.c \in WhitespaceChars -> WhitespaceArm(rest)
            [] char.c \in DOMAIN Punct -> PunctArm(char.c, rest)
            [] char.c = "/" -> SlashArm(rest)
            [] char.c \in AsciiAlphabetic -> WordArm(char.c, rest)
            [] char.c \in AsciiDigit -> NumberArm(char.c, rest)
            [] char.c = QUOTE -> LiteralArm(rest)
            [] OTHER -> OtherArm(rest)

scan(cu) ==
  IF cu = <<>> THEN None(cu)
  ELSE LET char == Head(cu)
           rest == Tail(cu)
       IN CASE char.c \in WhitespaceChars -> WhitespaceArm(rest)
            [] char.c \in DOMAIN Punct -> PunctArm(char.c, rest)
            [] char.c = "/" -> SlashArm(rest)
            [] char.c \in AsciiAlphabetic -> WordArm(char.c, rest)
            [] char.c \in AsciiDigit -> NumberArm(char.c, rest)
            [] char.c = QUOTE -> LiteralArm(rest)
            [] OTHER -> OtherArm(rest)

---------------------------------------------------------------------------
(* Cursor (cursor.rs) *)

\* cursor(source): the same line expansion as chars_iter
cursor(s) == FlatMap(lines(s), 1)

NoChar == [line_num |-> 0, row_num |-> 0, c |-> ""]

\* Cursor::next
Cursor_next(it) ==
  IF it = <<>> THEN [some |-> FALSE, item |-> NoChar, iter |-> it]
  ELSE [some |-> TRUE, item |-> Head(it), iter |-> Tail(it)]

\* the next character consumed whatever it is
Cursor_consume_Next(it, c) ==
  IF it = <<>> THEN [ret |-> FALSE, iter |-> it]
  ELSE [ret |-> Head(it).c = c, iter |-> Tail(it)]

\* Cursor::consume: self.iter.next_if(|char| char.c == c).is_some()
Cursor_consume(it, c) ==
  LET n == next_if_eq(it, c) IN [ret |-> n.some, iter |-> n.cur]

\* the rejected character consumed as well
RECURSIVE Cursor_skip_ConsumesStop(_, _)
Cursor_skip_ConsumesStop(it, predicate) ==
  IF it = <<>> THEN [iter |-> it, seen |-> <<>>]
  ELSE IF predicate[Head(it).c] = "true"
    THEN LET r == Cursor_skip_ConsumesStop(Tail(it), predicate) IN
           [r EXCEPT !.seen = <<Head(it).c>> \o @]
    ELSE [iter |-> Tail(it), seen |-> <<Head(it).c>>]

\* Cursor::skip: while the peeked character satisfies the predicate, advance;
\* seen lists the characters the predicate was called on, in call order
RECURSIVE Cursor_skip(_, _)
Cursor_skip(it, predicate) ==
  IF it = <<>> THEN [iter |-> it, seen |-> <<>>]
  ELSE IF predicate[Head(it).c] = "true"
    THEN LET r == Cursor_skip(Tail(it), predicate) IN
           [r EXCEPT !.seen = <<Head(it).c>> \o @]
    ELSE [iter |-> it, seen |-> <<Head(it).c>>]

NoOp == [op |-> "none", c |-> "", predicate |-> <<>>, before |-> <<>>,
         ret |-> FALSE, item |-> NoChar, seen |-> <<>>]

---------------------------------------------------------------------------
(* tokenize: the driver loop *)

\* how many of the expanded characters scan has consumed
Consumed == Len(chars) - Len(cur)

Init ==
  /\ source \in Sources
  /\ chars = chars_iter(source)
  /\ cur = chars
  /\ tokens = <<>>
  /\ spans = <<>>
  /\ pc = "loop"
  /\ failure = NoFailure
  /\ calls = 0
  /\ iter = <<>>
  /\ last = NoOp

\* one iteration of while let Some(token) = scan(&mut cur) { println!(..) }
Iterate ==
  LET r == scan(cur) IN
    /\ pc = "loop"
    /\ calls' = calls + 1
    /\ cur' = r.cur
    /\ failure' = r.failure
    /\ pc' = CASE r.ret = "Some" -> "loop"
               [] r.ret = "None" -> "done"
               [] r.ret = "panic" -> "panic"
    /\ IF r.ret = "Some"
         THEN /\ tokens' = Append(tokens, Token(Head(cur), r.token_kind))
              /\ spans' = Append(spans, [from |-> Consumed + 1,
                                         to |-> Len(chars) - Len(r.cur)])
         ELSE UNCHANGED <<tokens, spans>>
    /\ UNCHANGED <<source, chars, iter, last>>

Lead(S) == cur # <<>> /\ Head(cur).c \in S

ScanEnd == cur = <<>> /\ Iterate
ScanWhitespace == Lead(WhitespaceChars) /\ Iterate
ScanPunct == Lead(DOMAIN Punct) /\ Iterate
ScanSlash == Lead({"/"}) /\ Iterate
ScanWord == Lead(AsciiAlphabetic) /\ Iterate
ScanNumber == Lead(AsciiDigit) /\ Iterate
ScanLiteral == Lead({QUOTE}) /\ Iterate
ScanOther == Lead(OtherChars) /\ Iterate

Next ==
  \/ ScanEnd
  \/ ScanWhitespace
  \/ ScanPunct
  \/ ScanSlash
  \/ ScanWord
  \/ ScanNumber
  \/ ScanLiteral
  \/ ScanOther

Spec == Init /\ [][Next]_vars

TypeOK ==
  /\ pc \in {"loop", "done", "panic"}
  /\ Len(tokens) = Len(spans)
  /\ Consumed >= 0

---------------------------------------------------------------------------
(* A client of the Cursor: any sequence of next, consume and skip *)

\* a Cursor is built over the concatenation of at most MaxCursorFrags fragments
MaxCursorFrags == 2

CursorSources ==
  Corpus \cup
  UNION { { Concat(fs) : fs \in [1..n -> Fragments] } : n \in 0..MaxCursorFrags }

\* the characters consume is called with, and the predicates skip is called with
ConsumeArgs == {"/", LF, "_", "t"}
SkipPreds == {WhitespacePred, CommentPred, WordPred, DigitPred, Pred({}), Pred(CharSet)}

CursorInit ==
  /\ source \in CursorSources
  /\ iter = cursor(source)
  /\ last = NoOp
  /\ chars = chars_iter(source)
  /\ cur = chars
  /\ tokens = <<>>
  /\ spans = <<>>
  /\ pc = "loop"
  /\ failure = NoFailure
  /\ calls = 0

Lexer == <<source, chars, cur, tokens, spans, pc, failure, calls>>

CursorNext ==
  LET r == Cursor_next(iter) IN
    /\ iter' = r.iter
    /\ last' = [NoOp EXCEPT !.op = "next", !.before = iter,
                            !.ret = r.some, !.item = r.item]
    /\ UNCHANGED Lexer

CursorConsume ==
  \E c \in ConsumeArgs :
    LET r == Cursor_consume(iter, c) IN
      /\ iter' = r.iter
      /\ last' = [NoOp EXCEPT !.op = "consume", !.c = c, !.before = iter,
                              !.ret = r.ret]
      /\ UNCHANGED Lexer

CursorSkip ==
  \E p \in SkipPreds :
    LET r == Cursor_skip(iter, p) IN
      /\ iter' = r.iter
      /\ last' = [NoOp EXCEPT !.op = "skip", !.predicate = p, !.before = iter,
                              !.seen = r.seen]
      /\ UNCHANGED Lexer

CursorStep ==
  \/ CursorNext
  \/ CursorConsume
  \/ CursorSkip

CursorSpec == CursorInit /\ [][CursorStep]_vars

---------------------------------------------------------------------------
(* Properties *)

\* the characters of the expanded source consumed by the call of token i
SpanChars(i) == [k \in 1..(spans[i].to - spans[i].from + 1) |->
                   chars[spans[i].from + k - 1].c]

TokenIds == 1..Len(tokens)

\* the character left in the cursor at position p, "" past the end
CharAt(p) == IF p \in 1..Len(chars) THEN chars[p].c ELSE ""

\* C1: when scan pulls a '/' and the next character is not '/', the call
\* emits a Slash token positioned at that '/' and leaves the character after
\* the '/' unconsumed.
C1_SlashEmitted ==
  [][ (pc = "loop" /\ Lead({"/"}) /\ cur[2].c # "/")
        => /\ tokens' = Append(tokens, [line_num |-> cur[1].line_num,
                                        row_num |-> cur[1].row_num,
                                        token_kind |-> [tag |-> "Slash"]])
           /\ cur' = Tail(cur) ]_vars

\* C2: the driver loop stops without a failure only when every character of
\* the expanded input has been consumed.
C2_EndOnlyWhenExhausted == pc = "done" => cur = <<>>

\* C3: in a bit-literal scan the first '"' met in the run is the last
\* character the call consumes.
C3_FirstQuoteEndsRun ==
  \A i \in TokenIds :
    tokens[i].token_kind.tag = "Literal" =>
      \A j \in (spans[i].from + 1)..spans[i].to :
        chars[j].c = QUOTE => j = spans[i].to

\* C4: a bit-literal scan fails only on a '?' in the run; a run made of
\* '_', '@' and '"' always gives a Literal token.
C4_LiteralTotal ==
  pc = "panic" => failure.site # "Literal"

RECURSIVE SumSet(_)
SumSet(S) ==
  IF S = {} THEN 0
  ELSE LET x == CHOOSE y \in S : TRUE IN x + SumSet(S \ {x})

RECURSIVE Pow2(_)
Pow2(n) == IF n = 0 THEN 1 ELSE 2 * Pow2(n - 1)

\* positions of the bit characters consumed by the call of token i
BitIdx(i) == { j \in spans[i].from..spans[i].to : chars[j].c \in {"_", "@"} }

\* number of bit characters the call consumed after position j
BitRank(i, j) == Cardinality({ k \in BitIdx(i) : k > j })

\* ranks of the '@' characters: the binary digits that are 1, counted from
\* the least significant end
OneRanks(i) == { BitRank(i, j) : j \in { k \in BitIdx(i) : chars[k].c = "@" } }

\* C5: a Literal token's bitwidth is the number of '_' and '@' characters its
\* call consumed, and its value is those characters read most significant
\* bit first with '_' = 0 and '@' = 1; the body _@_@ gives bitwidth 4, value 5.
C5_LiteralBitwidthValue ==
  /\ \A i \in TokenIds :
       tokens[i].token_kind.tag = "Literal" =>
         /\ tokens[i].token_kind.bitwidth = Cardinality(BitIdx(i))
         /\ \A r \in OneRanks(i) : r < 32
         /\ tokens[i].token_kind.value.lo =
              SumSet({ Pow2(r) : r \in { q \in OneRanks(i) : q < 16 } })
         /\ tokens[i].token_kind.value.hi =
              SumSet({ Pow2(r - 16) : r \in { q \in OneRanks(i) : q >= 16 } })
  /\ (source = <<QUOTE,"_","@","_","@",QUOTE>> /\ tokens # <<>>) =>
       tokens[1] = [line_num |-> 1, row_num |-> 1,
                    token_kind |-> [tag |-> "Literal", bitwidth |-> 4,
                                    value |-> [hi |-> 0, lo |-> 5]]]

\* a Literal token whose call consumed a quote between two bit characters
C5_Witness ==
  \E i \in TokenIds :
    /\ tokens[i].token_kind.tag = "Literal"
    /\ tokens[i].token_kind.bitwidth >= 2
    /\ tokens[i].token_kind.value.lo > 0
    /\ \E j \in (spans[i].from + 1)..(spans[i].to - 1) : chars[j].c = QUOTE

---------------------------------------------------------------------------

RECURSIVE StripZeros(_)
StripZeros(ds) ==
  IF Len(ds) > 1 /\ Head(ds) = "0" THEN StripZeros(Tail(ds)) ELSE ds

DigitChar == [d \in 0..9 |-> CHOOSE c \in AsciiDigit : DigitValue[c] = d]

\* the decimal digits of a u32, most significant first, by repeated division
RECURSIVE ToDecimal(_)
ToDecimal(v) ==
  LET hiq == v.hi \div 10
      mid == (v.hi % 10) * Limb + v.lo
      q == [hi |-> hiq, lo |-> mid \div 10]
      d == <<DigitChar[mid % 10]>>
  IN IF q.hi = 0 /\ q.lo = 0 THEN d ELSE ToDecimal(q) \o d

U32MaxDigits == <<"4","2","9","4","9","6","7","2","9","5">>

\* a < b for digit strings of the same length
RECURSIVE DigitsLess(_, _)
DigitsLess(a, b) ==
  /\ a # <<>>
  /\ \/ DigitValue[Head(a)] < DigitValue[Head(b)]
     \/ Head(a) = Head(b) /\ DigitsLess(Tail(a), Tail(b))

\* the number written by the digit string ds exceeds 2^32 - 1
ExceedsU32(ds) ==
  LET n == StripZeros(ds) IN
    \/ Len(n) > 10
    \/ Len(n) = 10 /\ DigitsLess(U32MaxDigits, n)

\* first position not yet covered by a token, and the characters consumed
\* after the last token (the run of the call that failed)
AfterLastToken == IF spans = <<>> THEN 1 ELSE spans[Len(spans)].to + 1
PendingChars == [k \in 1..(Consumed - AfterLastToken + 1) |->
                   chars[AfterLastToken + k - 1].c]

\* C6: a digit-led call consumes the maximal run of decimal digits; it emits
\* Number(value of the run) when that value is at most 2^32 - 1 and fails
\* with the overflow error, emitting nothing, when it is larger.
C6_NumberOrOverflow ==
  /\ \A i \in TokenIds :
       chars[spans[i].from].c \in AsciiDigit =>
         /\ tokens[i].token_kind.tag = "Number"
         /\ \A k \in 1..Len(SpanChars(i)) : SpanChars(i)[k] \in AsciiDigit
         /\ CharAt(spans[i].to + 1) \notin AsciiDigit
         /\ ~ExceedsU32(SpanChars(i))
         /\ ToDecimal(tokens[i].token_kind.value) = StripZeros(SpanChars(i))
  /\ (pc = "panic" /\ CharAt(AfterLastToken) \in AsciiDigit) =>
       /\ failure = [site |-> "Number", err |-> "PosOverflow"]
       /\ \A k \in 1..Len(PendingChars) : PendingChars[k] \in AsciiDigit
       /\ CharAt(Consumed + 1) \notin AsciiDigit
       /\ ExceedsU32(PendingChars)
  /\ failure.site = "Number" => CharAt(AfterLastToken) \in AsciiDigit
  /\ (source = <<"1","2","3","4">> /\ tokens # <<>>) =>
       tokens[1].token_kind = [tag |-> "Number", value |-> U32(1234)]
  /\ (source = <<"9","9","9","9","9","9","9","9","9","9">> /\ pc # "loop") =>
       (pc = "panic" /\ tokens = <<>> /\ failure.err = "PosOverflow")

\* a Number token has been emitted and a later digit run has overflowed
C6_Witness ==
  /\ \E i \in TokenIds : tokens[i].token_kind.tag = "Number"
  /\ pc = "panic"
  /\ failure.site = "Number"
  /\ Len(PendingChars) = 10

---------------------------------------------------------------------------

WordChars == AsciiAlphabetic \cup AsciiDigit \cup {"_"}

KwType == <<"t","y","p","e">>
KwEnum == <<"e","n","u","m">>
KwLogic == <<"l","o","g","i","c">>

\* C7: a letter-led call consumes the maximal run of ASCII alphanumerics and
\* underscores; the token is Reserved(kind) exactly when the whole word is
\* type, enum or logic, and otherwise Ident carrying the whole word (type2,
\* types, enum_ are Idents).
C7_ReservedIffExactKeyword ==
  /\ \A i \in TokenIds :
       LET w == SpanChars(i)
           k == tokens[i].token_kind
       IN /\ k.tag \in {"Ident", "Reserved"} <=> w[1] \in AsciiAlphabetic
          /\ w[1] \in AsciiAlphabetic =>
               /\ \A n \in 1..Len(w) : w[n] \in WordChars
               /\ CharAt(spans[i].to + 1) \notin WordChars
               /\ k.tag = "Reserved" <=> w \in {KwType, KwEnum, KwLogic}
               /\ w = KwType => k = [tag |-> "Reserved", kind |-> "Type"]
               /\ w = KwEnum => k = [tag |-> "Reserved", kind |-> "Enum"]
               /\ w = KwLogic => k = [tag |-> "Reserved", kind |-> "Logic"]
               /\ k.tag = "Ident" => k.word = w
  /\ (source = <<"t","y","p","e","2">> /\ tokens # <<>>) =>
       tokens[1].token_kind = [tag |-> "Ident", word |-> <<"t","y","p","e","2">>]

\* the source "type type2" has given Reserved(Type), Whitespace, Ident(type2)
C7_Witness ==
  /\ Len(tokens) >= 3
  /\ tokens[1].token_kind = [tag |-> "Reserved", kind |-> "Type"]
  /\ tokens[3].token_kind = [tag |-> "Ident", word |-> <<"t","y","p","e","2">>]

---------------------------------------------------------------------------

\* C8: a call that pulls "//" emits Comment positioned at the first '/' and
\* consumes up to but not including the line's terminator; the next call
\* emits Whitespace at the terminator's position (same line, column = line
\* length + 1).
C8_CommentThenWhitespace ==
  \A i \in TokenIds :
    LET f == spans[i].from
        t == spans[i].to
        line == chars[f].line_num
        term == [line_num |-> line, row_num |-> Len(lines(source)[line]) + 1]
    IN /\ tokens[i].token_kind.tag = "Comment" <=>
            (chars[f].c = "/" /\ CharAt(f + 1) = "/")
       /\ tokens[i].token_kind.tag = "Comment" =>
            /\ tokens[i].line_num = line
            /\ tokens[i].row_num = chars[f].row_num
            /\ \A j \in f..t : chars[j].c # LF /\ chars[j].line_num = line
            /\ CharAt(t + 1) = LF
            /\ chars[t + 1].line_num = line
            /\ chars[t + 1].row_num = term.row_num
            /\ IF i < Len(tokens)
                 THEN /\ tokens[i + 1].token_kind.tag = "Whitespace"
                      /\ tokens[i + 1].line_num = term.line_num
                      /\ tokens[i + 1].row_num = term.row_num
                 ELSE /\ pc = "loop"
                      /\ cur # <<>>
                      /\ Head(cur).c = LF
                      /\ Head(cur).line_num = term.line_num
                      /\ Head(cur).row_num = term.row_num

\* a Comment of more than two characters followed by its Whitespace token
C8_Witness ==
  \E i \in TokenIds :
    /\ tokens[i].token_kind.tag = "Comment"
    /\ spans[i].to > spans[i].from + 2
    /\ i < Len(tokens)
    /\ tokens[i + 1].token_kind.tag = "Whitespace"

---------------------------------------------------------------------------

WhitespaceOnly ==
  /\ source # <<>>
  /\ \A k \in 1..Len(source) : source[k] \in WhitespaceChars

\* C9: for a non-empty source made only of tab, LF, CR and space, the driver
\* gets exactly one token, Whitespace at (1, 1), and the call after it
\* signals the end of input.
C9_WhitespaceOnlySource ==
  WhitespaceOnly =>
    /\ pc # "panic"
    /\ tokens = <<>> => (pc = "loop" /\ cur # <<>>)
    /\ tokens # <<>> =>
         /\ tokens = << [line_num |-> 1, row_num |-> 1,
                         token_kind |-> [tag |-> "Whitespace"]] >>
         /\ cur = <<>>
    /\ pc = "done" => Len(tokens) = 1

\* a whitespace-only source of several lines, scanned to the end
C9_Witness ==
  /\ WhitespaceOnly
  /\ Len(lines(source)) >= 2
  /\ pc = "done"
  /\ Len(tokens) = 1

---------------------------------------------------------------------------

\* positions of the line terminators before position p of the expanded source
LFsBefore(p) == { k \in 1..(p - 1) : chars[k].c = LF }

LastLFBefore(p) ==
  IF LFsBefore(p) = {} THEN 0
  ELSE CHOOSE k \in LFsBefore(p) : \A m \in LFsBefore(p) : m <= k

\* C10: a token's (line, column) is the position of the first character its
\* call consumed, whatever its length, the column restarting at 1 after a
\* line break: ab LF cd gives Ident(ab) at (1,1), Whitespace at (1,3),
\* Ident(cd) at (2,1).
C10_TokenPosition ==
  /\ \A i \in TokenIds :
       /\ tokens[i].line_num = 1 + Cardinality(LFsBefore(spans[i].from))
       /\ tokens[i].row_num = spans[i].from - LastLFBefore(spans[i].from)
  /\ (source = <<"a","b",LF,"c","d">> /\ Len(tokens) >= 3) =>
       SubSeq(tokens, 1, 3) =
         << [line_num |-> 1, row_num |-> 1,
             token_kind |-> [tag |-> "Ident", word |-> <<"a","b">>]],
            [line_num |-> 1, row_num |-> 3,
             token_kind |-> [tag |-> "Whitespace"]],
            [line_num |-> 2, row_num |-> 1,
             token_kind |-> [tag |-> "Ident", word |-> <<"c","d">>]] >>

\* a token of several characters that starts a line after the first
C10_Witness ==
  \E i \in TokenIds :
    /\ tokens[i].line_num >= 2
    /\ tokens[i].row_num = 1
    /\ spans[i].to > spans[i].from
    /\ i >= 3

---------------------------------------------------------------------------

\* (line, column) of a comes before that of b
PosLess(a, b) ==
  \/ a.line_num < b.line_num
  \/ a.line_num = b.line_num /\ a.row_num < b.row_num

\* C11: tokens come in source order: the positions of successive tokens
\* strictly increase, and the characters consumed by successive calls are
\* contiguous, non-overlapping, non-empty stretches of the expanded source
\* that start at its first character.
C11_SourceOrder ==
  /\ spans # <<>> => spans[1].from = 1
  /\ \A i \in TokenIds :
       /\ spans[i].from <= spans[i].to
       /\ spans[i].to <= Len(chars)
       /\ tokens[i].line_num = chars[spans[i].from].line_num
       /\ tokens[i].row_num = chars[spans[i].from].row_num
  /\ \A i \in 1..(Len(tokens) - 1) :
       /\ spans[i + 1].from = spans[i].to + 1
       /\ PosLess(tokens[i], tokens[i + 1])

\* four tokens over two lines, one of them of several characters
C11_Witness ==
  /\ Len(tokens) >= 4
  /\ tokens[4].line_num >= 2
  /\ \E i \in TokenIds : spans[i].to > spans[i].from

---------------------------------------------------------------------------

\* the characters some arm of scan accepts as the lead of a token
RecognizedLeads ==
  WhitespaceChars \cup DOMAIN Punct \cup {"/", QUOTE}
    \cup AsciiAlphabetic \cup AsciiDigit

\* the call after the last token has pulled its lead and given no token
CallPending == Consumed >= AfterLastToken

\* C13: a call whose lead character is in none of the recognized classes
\* ('_', a non-ASCII letter, ...) fails and gives no token; the character is
\* neither skipped nor made into an Ident.
C13_UnrecognizedLeadFails ==
  /\ \A i \in TokenIds : chars[spans[i].from].c \in RecognizedLeads
  /\ (AfterLastToken <= Len(chars) /\ CharAt(AfterLastToken) \notin RecognizedLeads) =>
       \/ pc = "loop" /\ ~CallPending
       \/ /\ pc = "panic"
          /\ failure = [site |-> "Lead", err |-> "unimplemented"]
          /\ Consumed = AfterLastToken
  /\ failure.site = "Lead" =>
       (pc = "panic" /\ CharAt(AfterLastToken) \notin RecognizedLeads)

\* a token has been emitted and the next call has failed on a '_' or 'é' lead
C13_Witness ==
  /\ tokens # <<>>
  /\ pc = "panic"
  /\ failure.site = "Lead"
  /\ CharAt(AfterLastToken) \in {"_", "é"}

---------------------------------------------------------------------------

\* position of the first character at or after p that is not '_', '@' or '"'
RECURSIVE RunEnd(_)
RunEnd(p) == IF CharAt(p) \in {"_", "@", QUOTE} THEN RunEnd(p + 1) ELSE p

\* position of the first character at or after p that is not '_' or '@'
RECURSIVE BitsEnd(_)
BitsEnd(p) == IF CharAt(p) \in {"_", "@"} THEN BitsEnd(p + 1) ELSE p

\* C14: a '?' met in the run of a bit literal, after the opening '"' and any
\* number of '_' and '@', makes the call fail with the unsupported-bit
\* failure; the run never ends silently at the '?' and no Literal is given.
C14_QuestionInLiteralFails ==
  /\ \A i \in TokenIds :
       tokens[i].token_kind.tag = "Literal" =>
         /\ CharAt(spans[i].to + 1) # "?"
         /\ \A j \in spans[i].from..spans[i].to : chars[j].c # "?"
  /\ (CharAt(AfterLastToken) = QUOTE /\ CharAt(BitsEnd(AfterLastToken + 1)) = "?"
        /\ CallPending) =>
       /\ pc = "panic"
       /\ failure = [site |-> "LiteralBit", err |-> "unimplemented"]
       /\ Consumed + 1 = BitsEnd(AfterLastToken + 1)
  /\ failure.site = "LiteralBit" =>
       /\ pc = "panic"
       /\ CharAt(AfterLastToken) = QUOTE
       /\ CharAt(Consumed + 1) = "?"
       /\ RunEnd(AfterLastToken + 1) = Consumed + 1

\* a literal with at least one bit before its '?' has failed
C14_Witness ==
  /\ pc = "panic"
  /\ failure.site = "LiteralBit"
  /\ Consumed > AfterLastToken
  /\ BitsEnd(AfterLastToken + 1) = Consumed + 1

---------------------------------------------------------------------------

Tag(i) == tokens[i].token_kind.tag

\* C18: maximal munch: two consecutive tokens are never both Whitespace, a
\* Number is never directly followed by a Number, and an Ident or Reserved
\* is never directly followed by an Ident, Reserved or Number; the character
\* left after such a token is not of the class the token was scanning.
C18_MaximalMunch ==
  /\ \A i \in 1..(Len(tokens) - 1) :
       /\ ~(Tag(i) = "Whitespace" /\ Tag(i + 1) = "Whitespace")
       /\ ~(Tag(i) = "Number" /\ Tag(i + 1) = "Number")
       /\ ~(Tag(i) \in {"Ident", "Reserved"}
              /\ Tag(i + 1) \in {"Ident", "Reserved", "Number"})
  /\ \A i \in TokenIds :
       /\ Tag(i) = "Whitespace" => CharAt(spans[i].to + 1) \notin WhitespaceChars
       /\ Tag(i) = "Number" => CharAt(spans[i].to + 1) \notin AsciiDigit
       /\ Tag(i) \in {"Ident", "Reserved"} => CharAt(spans[i].to + 1) \notin WordChars

\* a Number directly followed by an Ident, and a word directly followed by a
\* token that is not Whitespace
C18_Witness ==
  /\ \E i \in 1..(Len(tokens) - 1) : Tag(i) = "Number" /\ Tag(i + 1) \in {"Ident", "Reserved"}
  /\ \E i \in 1..(Len(tokens) - 1) :
       /\ Tag(i) \in {"Ident", "Reserved"}
       /\ Tag(i + 1) \notin {"Whitespace", "Ident", "Reserved", "Number"}
       /\ spans[i].to > spans[i].from

---------------------------------------------------------------------------

\* C19: when the scan of a non-empty source ends with the cursor exhausted,
\* the last token is Whitespace (it covers the last line's terminator), also
\* when the text has no trailing line terminator: type alone gives
\* Reserved(Type), Whitespace at (1,5).
C19_LastTokenWhitespace ==
  /\ (source # <<>> /\ pc = "done" /\ cur = <<>>) =>
       /\ tokens # <<>>
       /\ Tag(Len(tokens)) = "Whitespace"
       /\ spans[Len(tokens)].to = Len(chars)
       /\ chars[Len(chars)].c = LF
  /\ (source = <<"t","y","p","e">> /\ pc = "done") =>
       tokens = << [line_num |-> 1, row_num |-> 1,
                    token_kind |-> [tag |-> "Reserved", kind |-> "Type"]],
                   [line_num |-> 1, row_num |-> 5,
                    token_kind |-> [tag |-> "Whitespace"]] >>

\* a text without trailing terminator scanned to exhaustion, the final
\* Whitespace being the lone synthetic terminator after another token
C19_Witness ==
  /\ source # <<>>
  /\ source[Len(source)] # LF
  /\ pc = "done"
  /\ cur = <<>>
  /\ Len(tokens) >= 2
  /\ spans[Len(tokens)].from = Len(chars)

---------------------------------------------------------------------------

\* C20: only Whitespace tokens cross a line boundary: a call that gives any
\* other token consumes no line terminator, and every character it consumes
\* is on the line of the token's position.
C20_OnlyWhitespaceCrossesLines ==
  \A i \in TokenIds :
    Tag(i) # "Whitespace" =>
      \A j \in spans[i].from..spans[i].to :
        /\ chars[j].c # LF
        /\ chars[j].line_num = tokens[i].line_num

\* a Whitespace token that spans two lines, followed by a token of several
\* characters on the later line
C20_Witness ==
  \E i \in 1..(Len(tokens) - 1) :
    /\ Tag(i) = "Whitespace"
    /\ chars[spans[i].to].line_num > chars[spans[i].from].line_num
    /\ Tag(i + 1) # "Whitespace"
    /\ spans[i + 1].to > spans[i + 1].from

---------------------------------------------------------------------------

\* s without its first n elements
Drop(s, n) == SubSeq(s, n + 1, Len(s))

\* C12: Cursor consume(x): when the next character is not x, or the cursor is
\* exhausted, the cursor is left exactly as it was and the result is false;
\* when the next character is x, exactly that character is consumed and the
\* result is true.
C12_ConsumeFrame ==
  last.op = "consume" =>
    IF Len(last.before) >= 1 /\ last.before[1].c = last.c
      THEN last.ret = TRUE /\ iter = Drop(last.before, 1)
      ELSE last.ret = FALSE /\ iter = last.before

\* a consume that found another character, on a cursor already advanced
C12_Witness ==
  /\ last.op = "consume"
  /\ last.ret = FALSE
  /\ last.before # <<>>
  /\ Len(last.before) < Len(cursor(source))


---------------------------------------------------------------------------

\* number of characters the last operation consumed
Advanced == Len(last.before) - Len(iter)

\* C15: skip(predicate) consumes exactly the longest prefix of the remaining
\* characters on which the predicate holds; it stops without consuming at the
\* first character the predicate rejects, stops at exhaustion without calling
\* the predicate, and calls the predicate once per inspected character, in
\* source order.  The skip of main.rs consumes the same prefix.
C15_SkipLongestPrefix ==
  last.op = "skip" =>
    LET n == Advanced
        b == last.before
        inspected == IF n < Len(b) THEN n + 1 ELSE n
    IN /\ n >= 0
       /\ iter = Drop(b, n)
       /\ \A k \in 1..n : last.predicate[b[k].c] = "true"
       /\ n < Len(b) => last.predicate[b[n + 1].c] = "false"
       /\ last.seen = [k \in 1..inspected |-> b[k].c]
       /\ skip(b, last.predicate).cur = iter
       /\ skip(b, last.predicate).taken = [k \in 1..n |-> b[k].c]

\* a skip that consumed several characters and stopped before a rejected one
C15_Witness ==
  /\ last.op = "skip"
  /\ Advanced >= 2
  /\ iter # <<>>
  /\ Len(last.seen) = Advanced + 1

---------------------------------------------------------------------------

\* C17: the scan terminates: a call that gives a token consumes at least one
\* character, the cursor never moves backwards, and for a source expanding
\* to N characters the driver loop ends, by the end of input or a failure,
\* after at most N + 1 calls of scan: every step of the loop is one more
\* call, and the number of calls never exceeds N + 1.
C17_Terminates ==
  /\ [](/\ calls <= Len(chars) + 1
        /\ calls = Len(tokens) + (IF pc = "loop" THEN 0 ELSE 1)
        /\ Len(tokens) <= Consumed
        /\ \A i \in TokenIds : spans[i].to >= spans[i].from)
  /\ [][/\ Len(cur') <= Len(cur)
        /\ calls' = calls + 1
        /\ Len(tokens') > Len(tokens) => Len(cur') < Len(cur)]_vars

\* the loop has ended on its last possible call: every call but the last
\* consumed exactly one character
C17_Witness ==
  /\ pc = "done"
  /\ Len(chars) >= 3
  /\ calls = Len(chars) + 1

---------------------------------------------------------------------------

\* number of expanded characters before line i: every earlier line with its
\* terminator
RECURSIVE LineStart(_, _)
LineStart(ls, i) ==
  IF i = 1 THEN 0 ELSE LineStart(ls, i - 1) + Len(ls[i - 1]) + 1

\* the lines of the text, cut independently of lines: a line ends at each LF
\* and at the end of a text that does not end with LF; it loses one CR
\* before its LF
LineEnds(s) ==
  { k \in 1..Len(s) : s[k] = LF } \cup
  (IF s # <<>> /\ s[Len(s)] # LF THEN {Len(s) + 1} ELSE {})

LineBegin(s, e) ==
  IF \E k \in LineEnds(s) : k < e
    THEN 1 + CHOOSE k \in LineEnds(s) : k < e /\ \A m \in LineEnds(s) : m < e => m <= k
    ELSE 1

LineText(s, e) ==
  LET b == LineBegin(s, e)
      stop == IF e <= Len(s) /\ e - 1 >= b /\ s[e - 1] = CR THEN e - 2 ELSE e - 1
  IN SubSeq(s, b, stop)

\* cs is the expansion of the text s
LineExpansion(s, cs) ==
  LET ls == lines(s) IN
    /\ Len(ls) = Cardinality(LineEnds(s))
    /\ \A e \in LineEnds(s) :
         ls[Cardinality({ k \in LineEnds(s) : k <= e })] = LineText(s, e)
    /\ Len(cs) = LineStart(ls, Len(ls) + 1)
    /\ \A i \in 1..Len(ls) :
         /\ \A j \in 1..Len(ls[i]) :
              cs[LineStart(ls, i) + j] = [line_num |-> i, row_num |-> j, c |-> ls[i][j]]
         /\ cs[LineStart(ls, i) + Len(ls[i]) + 1] =
              [line_num |-> i, row_num |-> Len(ls[i]) + 1, c |-> LF]

\* C16: line expansion: line i of length L gives L characters tagged (i, 1)
\* to (i, L), in order, then exactly one synthetic LF tagged (i, L + 1); the
\* lines follow each other in order, and the last line gets its terminator
\* whether or not the text ended with one.  Both chars_iter and cursor do so.
C16_LineExpansion ==
  /\ LineExpansion(source, chars)
  /\ LineExpansion(source, cursor(source))
  /\ source # <<>> => chars[Len(chars)].c = LF
  /\ (source # <<>> /\ source[Len(source)] \notin {LF, CR}) =>
       chars_iter(Append(source, LF)) = chars

\* a text of several lines whose last line is not empty and not terminated
C16_Witness ==
  /\ Len(lines(source)) >= 2
  /\ source[Len(source)] # LF
  /\ Len(lines(source)[1]) >= 1
  /\ tokens = <<>>

====
